---- MODULE Spec2Model ----
(***************************************************************************)
(* Model of src/src/App.js: the React component App with its five state    *)
(* hooks, the file-input handler handleFileChange (with the FileReader     *)
(* onload continuation that drives pdf.js) and the button handler          *)
(* summarizeText (with its fetch / response.json continuations).           *)
(*                                                                         *)
(* JavaScript strings are TLA+ strings (\o is concatenation, Len is        *)
(* .length).  A value that may be undefined/null/absent is a sequence of   *)
(* length 0 (absent) or 1 (present).  Every handler body that runs without *)
(* an await is one action; every await is a point where any other event    *)
(* may be handled first.                                                   *)
(***************************************************************************)
EXTENDS Integers, Sequences, FiniteSets, TLC

\* ---------------------------------------------------------------- bounds
MaxSelections == 2      \* accepted PDF selections (file reads started)
MaxSummarize  == 2      \* network calls issued

\* ------------------------------------------------------- program constants
MAX_TEXT_LENGTH == 50000

MsgInvalidFile == "Please upload a valid PDF file."
MsgNoPdfJs     == "PDF.js library not loaded. Please ensure it is linked correctly in index.html and try again."
MsgExtractFail == "Failed to extract text from PDF. Please ensure it's a valid PDF and not password protected."
MsgNoText      == "No text extracted to summarize. Please upload a PDF first."
MsgTooLong     == "The extracted text is very long (over 50,000 characters). Please try a smaller PDF or a more concise document, or consider using a different summarization approach for very large texts."
MsgNoCandidates == "The AI did not provide any summary candidates. The content might be too sensitive or inappropriate for the model."
MsgUnexpected  == "Failed to get a summary from the AI. The response structure was unexpected."
MsgNetwork     == "An error occurred while summarizing the text. Please check your internet connection or try again later. (Network Error/CORS issue)"

ApiErrorMsg(m) == "API Error: " \o m
BlockedMsg(r)  == "Summary blocked due to: " \o r \o ". Content might violate safety policies."
Prompt(text)   == "Summarize the following text:\n\n" \o text

\* ------------------------------------------------------ JavaScript values
Undefined == <<>>
Some(v)   == <<v>>
Present(o) == o # <<>>
\* truthiness of an optional string: undefined and '' are falsy
Truthy(o) == o # <<>> /\ o[1] # ""

RECURSIVE Rep(_, _)
Rep(s, n) == IF n = 0 THEN ""
             ELSE IF n = 1 THEN s
             ELSE LET h == Rep(s, n \div 2)
                  IN  IF n % 2 = 0 THEN h \o h ELSE h \o h \o s

\* ------------------------------------------------------------ the inputs
\* A file is known by its name and declared type.  Its payload, as pdf.js
\* decodes it, is the sequence of its pages; a page is the sequence of the
\* str fields of its text items.
DocEmpty == <<>>
DocHello == << <<"Hello", "world">>, <<"Bye">> >>
\* exactly MAX_TEXT_LENGTH characters once the two line breaks are appended
DocLimit == << <<>>, <<Rep("x", MAX_TEXT_LENGTH - 2)>> >>
\* the same with one more, empty, item: the separator alone passes the limit
DocOver  == << <<>>, <<Rep("x", MAX_TEXT_LENGTH - 2), "">> >>
PdfNames == {"empty.pdf", "hello.pdf", "limit.pdf", "over.pdf"}
PagesOf(name) ==
  CASE name = "empty.pdf" -> DocEmpty
    [] name = "hello.pdf" -> DocHello
    [] name = "limit.pdf" -> DocLimit
    [] name = "over.pdf"  -> DocOver

PdfType == "application/pdf"
PdfFiles == [name : PdfNames, type : {PdfType}]
OtherFiles == [name : {"notes.txt"}, type : {"text/plain", ""}]
\* event.target.files: empty (files[0] undefined) or holding one file
FileLists == {<<>>} \cup {<<f>> : f \in PdfFiles \cup OtherFiles}

\* ------------------------------------------------------------- the state
VARIABLES
  pdfFile,        \* useState(null): <<>> is null, <<file>> a file
  extractedText,  \* useState('')
  summary,        \* useState(''): <<s>> a string, <<>> undefined
  loading,        \* useState(false)
  error,          \* useState('')
  extractions,    \* FileReader reads / onload continuations in flight
  summaries,      \* summarizeText continuations in flight
  started,        \* number of reader.readAsArrayBuffer calls made
  calls,          \* number of fetch calls made
  pdfjsLib,       \* whether window.pdfjsLib is defined (the script tag loaded)
  last            \* the step just taken

vars == <<pdfFile, extractedText, summary, loading, error,
          extractions, summaries, started, calls, pdfjsLib, last>>

ui == <<pdfFile, extractedText, summary, loading, error>>

\* op names the code path the step ran
Step(op) == [op |-> op]

Init ==
  /\ pdfFile = <<>>
  /\ extractedText = ""
  /\ summary = Some("")
  /\ loading = FALSE
  /\ error = ""
  /\ extractions = {}
  /\ summaries = {}
  /\ started = 0
  /\ calls = 0
  /\ pdfjsLib \in BOOLEAN
  /\ last = Step("init")

\* --------------------------------------------------- handleFileChange
\* JoinItems joining with '' instead of ' '
RECURSIVE JoinItemsNoSeparator(_)
JoinItemsNoSeparator(items) ==
  IF Len(items) = 0 THEN ""
  ELSE items[1] \o JoinItemsNoSeparator(Tail(items))

\* textContent.items.map(item => item.str).join(' ')
RECURSIVE JoinItems(_)
JoinItems(items) ==
  IF Len(items) = 0 THEN ""
  ELSE IF Len(items) = 1 THEN items[1]
  ELSE items[1] \o " " \o JoinItems(Tail(items))

\* RejectFile without setExtractedText('')
RejectFileKeepsText ==
  /\ pdfFile' = <<>>
  /\ summary' = Some("")
  /\ error' = MsgInvalidFile
  /\ UNCHANGED <<extractedText, loading, extractions, started>>
  /\ last' = Step("selectInvalid")

\* the else branch: file absent or not a PDF
RejectFile ==
  /\ pdfFile' = <<>>
  /\ extractedText' = ""
  /\ summary' = Some("")
  /\ error' = MsgInvalidFile
  /\ UNCHANGED <<loading, extractions, started>>
  /\ last' = Step("selectInvalid")

\* AcceptFile without setError('')
AcceptFileKeepsError(file) ==
  /\ started < MaxSelections
  /\ pdfFile' = Some(file)
  /\ extractedText' = ""
  /\ summary' = Some("")
  /\ loading' = TRUE
  /\ started' = started + 1
  /\ extractions' = extractions \cup
       {[id |-> started + 1, file |-> file.name, pc |-> "read", i |-> 0, fullText |-> ""]}
  /\ last' = Step("selectValid")
  /\ UNCHANGED error

\* the then branch: state reset, then reader.readAsArrayBuffer(file)
AcceptFile(file) ==
  /\ started < MaxSelections
  /\ pdfFile' = Some(file)
  /\ extractedText' = ""
  /\ summary' = Some("")
  /\ error' = ""
  /\ loading' = TRUE
  /\ started' = started + 1
  /\ extractions' = extractions \cup
       {[id |-> started + 1, file |-> file.name, pc |-> "read", i |-> 0, fullText |-> ""]}
  /\ last' = Step("selectValid")

handleFileChange(files) ==
  /\ IF Len(files) > 0 /\ files[1].type = PdfType
       THEN AcceptFile(files[1])
       ELSE RejectFile
  /\ UNCHANGED <<summaries, calls, pdfjsLib>>

\* the read fails: the reader has no onerror handler, so nothing runs
ReaderOnError(t) ==
  /\ t.pc = "read"
  /\ extractions' = extractions \ {t}
  /\ last' = Step("readError")
  /\ UNCHANGED <<ui, summaries, started, calls, pdfjsLib>>

\* catch (err) of reader.onload
ExtractCatch(t) ==
  /\ error' = MsgExtractFail
  /\ loading' = FALSE
  /\ extractions' = extractions \ {t}
  /\ last' = Step("extractFailed")
  /\ UNCHANGED <<pdfFile, extractedText, summary>>

\* the loop test i <= pdf.numPages with the code after the loop
ExtractLoop(t, i, fullText, op) ==
  IF i <= Len(PagesOf(t.file))
    THEN /\ extractions' = (extractions \ {t}) \cup
              {[t EXCEPT !.pc = "getPage", !.i = i, !.fullText = fullText]}
         /\ last' = Step(op)
         /\ UNCHANGED ui
    ELSE /\ extractedText' = fullText
         /\ loading' = FALSE
         /\ extractions' = extractions \ {t}
         /\ last' = Step("extractDone")
         /\ UNCHANGED <<pdfFile, summary, error>>

\* reader.onload up to its first await
ReaderOnLoad(t) ==
  /\ t.pc = "read"
  /\ IF ~pdfjsLib
       THEN /\ error' = MsgNoPdfJs
            /\ loading' = FALSE
            /\ extractions' = extractions \ {t}
            /\ last' = Step("noPdfJs")
            /\ UNCHANGED <<pdfFile, extractedText, summary>>
       ELSE /\ extractions' = (extractions \ {t}) \cup {[t EXCEPT !.pc = "getDocument"]}
            /\ last' = Step("readerOnLoad")
            /\ UNCHANGED ui
  /\ UNCHANGED <<summaries, started, calls, pdfjsLib>>

\* await getDocument(...).promise settles
GetDocumentSettled(t) ==
  /\ t.pc = "getDocument"
  /\ \E resolved \in BOOLEAN :
       IF resolved THEN ExtractLoop(t, 1, "", "getDocument") ELSE ExtractCatch(t)
  /\ UNCHANGED <<summaries, started, calls, pdfjsLib>>

\* await pdf.getPage(i) settles
GetPageSettled(t) ==
  /\ t.pc = "getPage"
  /\ \E resolved \in BOOLEAN :
       IF resolved
         THEN /\ extractions' = (extractions \ {t}) \cup {[t EXCEPT !.pc = "getTextContent"]}
              /\ last' = Step("getPage")
              /\ UNCHANGED ui
         ELSE ExtractCatch(t)
  /\ UNCHANGED <<summaries, started, calls, pdfjsLib>>

\* await page.getTextContent() settles; fullText += ... + '\n'; i++
GetTextContentSettled(t) ==
  /\ t.pc = "getTextContent"
  /\ \E resolved \in BOOLEAN :
       IF resolved
         THEN ExtractLoop(t, t.i + 1, t.fullText \o JoinItems(PagesOf(t.file)[t.i]) \o "\n",
                          "getTextContent")
         ELSE ExtractCatch(t)
  /\ UNCHANGED <<summaries, started, calls, pdfjsLib>>

\* ------------------------------------------------------- summarizeText
\* The parsed JSON body: <<>> is null, <<r>> an object r whose fields are
\* each absent (<<>>) or present.
Part(text)      == [text |-> text]
Candidate(parts) == [content |-> Some([parts |-> Some(parts)])]
ErrorObjects == {Undefined, Some([message |-> Some("")]), Some([message |-> Some("Y")])}
Feedbacks    == {Undefined, Some([blockReason |-> Some("SAFETY")])}
CandidateLists ==
  { Undefined,
    Some(<<>>),
    Some(<<[content |-> Undefined]>>),
    Some(<<Candidate(<<>>)>>),
    Some(<<Candidate(<<Part(Undefined)>>)>>),
    Some(<<Candidate(<<Part(Some(""))>>)>>),
    Some(<<Candidate(<<Part(Some("X")), Part(Some("Z"))>>), Candidate(<<Part(Some("W"))>>)>>) }
Objects == [error : ErrorObjects, promptFeedback : Feedbacks, candidates : CandidateLists]
Bodies  == {<<>>} \cup {<<r>> : r \in Objects}

\* the condition of the if at the head of the response handling
IsSuccess(ok, r) ==
  /\ ok
  /\ Present(r.candidates)
  /\ Len(r.candidates[1]) > 0
  /\ Present(r.candidates[1][1].content)
  /\ Present(r.candidates[1][1].content[1].parts)
  /\ Len(r.candidates[1][1].content[1].parts[1]) > 0

\* result.candidates[0].content.parts[0].text
FirstText(r) == r.candidates[1][1].content[1].parts[1][1].text

\* ErrorFor testing promptFeedback before error
ErrorForFeedbackFirst(r) ==
  IF Present(r.promptFeedback) /\ Truthy(r.promptFeedback[1].blockReason)
    THEN BlockedMsg(r.promptFeedback[1].blockReason[1])
  ELSE IF Present(r.error) /\ Truthy(r.error[1].message)
    THEN ApiErrorMsg(r.error[1].message[1])
  ELSE IF Present(r.candidates) /\ Len(r.candidates[1]) = 0
    THEN MsgNoCandidates
  ELSE MsgUnexpected

\* the else branch: "Handle common API error structures"
ErrorFor(r) ==
  IF Present(r.error) /\ Truthy(r.error[1].message)
    THEN ApiErrorMsg(r.error[1].message[1])
  ELSE IF Present(r.promptFeedback) /\ Truthy(r.promptFeedback[1].blockReason)
    THEN BlockedMsg(r.promptFeedback[1].blockReason[1])
  ELSE IF Present(r.candidates) /\ Len(r.candidates[1]) = 0
    THEN MsgNoCandidates
  ELSE MsgUnexpected

\* the button is rendered under {extractedText && ...} with disabled={loading}
ButtonEnabled == extractedText # "" /\ ~loading

\* summarizeText with the length guard off by one
summarizeTextOffByOne ==
  /\ IF extractedText = ""
       THEN /\ error' = MsgNoText
            /\ last' = Step("summarizeNoText")
            /\ UNCHANGED <<summary, loading, summaries, calls>>
     ELSE IF Len(extractedText) > MAX_TEXT_LENGTH + 1
       THEN /\ error' = MsgTooLong
            /\ last' = Step("summarizeTooLong")
            /\ UNCHANGED <<summary, loading, summaries, calls>>
     ELSE /\ calls < MaxSummarize
          /\ loading' = TRUE
          /\ summary' = Some("")
          /\ error' = ""
          /\ calls' = calls + 1
          /\ summaries' = summaries \cup
               {[id |-> calls + 1, pc |-> "fetch", ok |-> FALSE,
                 prompt |-> Prompt(extractedText)]}
          /\ last' = Step("summarizeStart")
  /\ UNCHANGED <<pdfFile, extractedText, extractions, started, pdfjsLib>>

\* summarizeText up to its first await (the fetch call)
summarizeText ==
  /\ IF extractedText = ""
       THEN /\ error' = MsgNoText
            /\ last' = Step("summarizeNoText")
            /\ UNCHANGED <<summary, loading, summaries, calls>>
     ELSE IF Len(extractedText) > MAX_TEXT_LENGTH
       THEN /\ error' = MsgTooLong
            /\ last' = Step("summarizeTooLong")
            /\ UNCHANGED <<summary, loading, summaries, calls>>
     ELSE /\ calls < MaxSummarize
          /\ loading' = TRUE
          /\ summary' = Some("")
          /\ error' = ""
          /\ calls' = calls + 1
          /\ summaries' = summaries \cup
               {[id |-> calls + 1, pc |-> "fetch", ok |-> FALSE,
                 prompt |-> Prompt(extractedText)]}
          /\ last' = Step("summarizeStart")
  /\ UNCHANGED <<pdfFile, extractedText, extractions, started, pdfjsLib>>

\* onClick={summarizeText}
ClickSummarize == ButtonEnabled /\ summarizeText

\* summarizeText invoked while no button is rendered (a direct call of the
\* handler, which is the only way to reach its first guard)
CallSummarizeText == extractedText = "" /\ summarizeText

\* SummarizeCatch issuing the call again instead of giving up
SummarizeCatchRetries(s, op) ==
  /\ error' = MsgNetwork
  /\ loading' = TRUE
  /\ summaries' = (summaries \ {s}) \cup {[s EXCEPT !.pc = "fetch"]}
  /\ last' = Step(op)
  /\ UNCHANGED <<pdfFile, extractedText, summary>>

\* catch (err) followed by finally
SummarizeCatch(s, op) ==
  /\ error' = MsgNetwork
  /\ loading' = FALSE
  /\ summaries' = summaries \ {s}
  /\ last' = Step(op)
  /\ UNCHANGED <<pdfFile, extractedText, summary>>

\* await fetch(...) settles
FetchSettled(s) ==
  /\ s.pc = "fetch"
  /\ \E resolved \in BOOLEAN :
       IF resolved
         THEN \E ok \in BOOLEAN :
                /\ summaries' = (summaries \ {s}) \cup {[s EXCEPT !.pc = "json", !.ok = ok]}
                /\ last' = Step("fetchResolved")
                /\ UNCHANGED ui
         ELSE SummarizeCatch(s, "fetchRejected")
  /\ UNCHANGED <<extractions, started, calls, pdfjsLib>>

\* the code from const result = ... to the end of the try, then finally
HandleResult(s, body) ==
  IF body = <<>>
    THEN SummarizeCatch(s, "resultThrew")       \* property read on null
  ELSE IF IsSuccess(s.ok, body[1])
    THEN /\ summary' = FirstText(body[1])
         /\ loading' = FALSE
         /\ summaries' = summaries \ {s}
         /\ last' = Step("summarySuccess")
         /\ UNCHANGED <<pdfFile, extractedText, error>>
  ELSE /\ error' = ErrorFor(body[1])
       /\ loading' = FALSE
       /\ summaries' = summaries \ {s}
       /\ last' = Step("summaryError")
       /\ UNCHANGED <<pdfFile, extractedText, summary>>

\* await response.json() settles
JsonSettled(s) ==
  /\ s.pc = "json"
  /\ \/ SummarizeCatch(s, "jsonRejected")
     \/ \E body \in Bodies : HandleResult(s, body)
  /\ UNCHANGED <<extractions, started, calls, pdfjsLib>>

\* ------------------------------------------------------ specifications
SelectFile == \E files \in FileLists : handleFileChange(files)
ReadFails  == \E t \in extractions : ReaderOnError(t)
ReadDone   == \E t \in extractions : ReaderOnLoad(t)
DocumentStep == \E t \in extractions : GetDocumentSettled(t)
PageStep   == \E t \in extractions : GetPageSettled(t)
TextStep   == \E t \in extractions : GetTextContentSettled(t)
FetchStep  == \E s \in summaries : FetchSettled(s)
JsonStep   == \E s \in summaries : JsonSettled(s)

Next ==
  \/ SelectFile
  \/ ReadFails
  \/ ReadDone
  \/ DocumentStep
  \/ PageStep
  \/ TextStep
  \/ ClickSummarize
  \/ FetchStep
  \/ JsonStep

Spec == Init /\ [][Next]_vars

\* the same program with summarizeText also callable while the button is
\* not rendered
NextCall == Next \/ CallSummarizeText

SpecCall == Init /\ [][NextCall]_vars

TypeOK ==
  /\ loading \in BOOLEAN
  /\ started \in 0..MaxSelections
  /\ calls \in 0..MaxSummarize
  /\ Cardinality(extractions) <= MaxSelections
  /\ Cardinality(summaries) <= MaxSummarize

\* ------------------------------------------------------------ claims
InvalidSelection(files) == Len(files) = 0 \/ files[1].type # "application/pdf"

\* C1: a selection with no file, or with a file whose declared type is not
\* 'application/pdf', starts no file read or extraction, and right after it
\* extractedText and summary are empty, pdfFile is null and error is the
\* fixed, non-empty 'Please upload a valid PDF file.' message.
C1_InvalidSelectionRejected ==
  [][\A files \in FileLists :
       InvalidSelection(files) /\ handleFileChange(files)
         => /\ started' = started
            /\ extractions' = extractions
            /\ extractedText' = ""
            /\ summary' = Some("")
            /\ pdfFile' = <<>>
            /\ error' = "Please upload a valid PDF file."
            /\ error' # ""]_vars

\* a non-PDF selection made while an earlier document is being summarized
C1_Witness ==
  /\ last.op = "selectInvalid"
  /\ summaries # {}
  /\ pdfFile = <<>>
  /\ extractedText = ""
  /\ error = "Please upload a valid PDF file."

\* C2: a selection of an 'application/pdf' file leaves summary, error and
\* extractedText empty and loading true, with the read of that file pending
\* and nothing of it extracted yet.
C2_ValidSelectionClears ==
  [][\A files \in FileLists :
       ~InvalidSelection(files) /\ handleFileChange(files)
         => /\ summary' = Some("")
            /\ error' = ""
            /\ extractedText' = ""
            /\ loading'
            /\ \E t \in extractions' \ extractions :
                 /\ t.file = files[1].name
                 /\ t.pc = "read"
                 /\ t.fullText = ""
                 /\ extractions' = extractions \cup {t}]_vars

\* a second PDF selected while the first one is being summarized
C2_Witness ==
  /\ last.op = "selectValid"
  /\ started = 2
  /\ summaries # {}
  /\ error = ""
  /\ loading

\* C3: a network call is issued only by a summarizeText invocation that saw
\* extractedText non-empty and at most 50000 characters long; an invocation
\* that sees it empty or longer issues no call, sets the matching fixed
\* message and leaves loading as it was.
C3_CallOnlyWithinGuards ==
  [][/\ calls' # calls
          => /\ calls' = calls + 1
             /\ Cardinality(summaries') = Cardinality(summaries) + 1
             /\ summarizeText
             /\ extractedText # ""
             /\ Len(extractedText) <= 50000
     /\ {s.id : s \in summaries'} \ {s.id : s \in summaries} # {}
          => calls' = calls + 1
     /\ summarizeText /\ extractedText = ""
          => /\ calls' = calls
             /\ summaries' = summaries
             /\ error' = MsgNoText
             /\ loading' = loading
     /\ summarizeText /\ Len(extractedText) > 50000
          => /\ calls' = calls
             /\ summaries' = summaries
             /\ error' = MsgTooLong
             /\ loading' = loading]_vars

\* the handler called with no text extracted
C3_WitnessNoText ==
  /\ last.op = "summarizeNoText"
  /\ error = MsgNoText
  /\ calls = 0

\* the button pressed on a text of 50001 characters
C3_Witness ==
  /\ last.op = "summarizeTooLong"
  /\ Len(extractedText) = 50001
  /\ error = MsgTooLong
  /\ ~loading
  /\ calls = 0

\* an attempt concludes in a step when it is in flight before and not after
ExtractionEnds == \E t \in extractions : t.id \notin {u.id : u \in extractions'}
SummarizationEnds == \E s \in summaries : s.id \notin {u.id : u \in summaries'}

\* C4: every attempt that set loading to true ends with a step that sets
\* loading to false, whatever the outcome of its file read, its extraction
\* or its network call: no attempt concludes and leaves loading true.
C4_AttemptEndsNotBusy ==
  [][ExtractionEnds \/ SummarizationEnds => ~loading']_vars

\* response.json() settles for s with the parsed body
Completes(s, body) ==
  /\ s.pc = "json"
  /\ HandleResult(s, body)
  /\ UNCHANGED <<extractions, started, calls, pdfjsLib>>

\* candidates[0].content.parts[0].text exists in r
HasFirstText(r) ==
  /\ Present(r.candidates) /\ Len(r.candidates[1]) > 0
  /\ Present(r.candidates[1][1].content)
  /\ Present(r.candidates[1][1].content[1].parts)
  /\ Len(r.candidates[1][1].content[1].parts[1]) > 0
  /\ Present(r.candidates[1][1].content[1].parts[1][1].text)

\* C5: when a call completes with a successful response whose
\* candidates[0].content.parts[0].text is X, right after the completion
\* summary is exactly X and error is empty, whatever happened while the
\* call was in flight.
C5_SuccessShowsSummaryNoError ==
  [][\A s \in summaries : \A body \in Bodies \ {<<>>} :
       s.ok /\ HasFirstText(body[1]) /\ Completes(s, body)
         => /\ summary' = body[1].candidates[1][1].content[1].parts[1][1].text
            /\ error' = ""]_vars

\* r carries an error object with a non-empty message
HasErrorMessage(r) ==
  Present(r.error) /\ Present(r.error[1].message) /\ r.error[1].message[1] # ""

AcceptedAsSuccess(ok, r) ==
  /\ ok
  /\ Present(r.candidates) /\ Len(r.candidates[1]) >= 1
  /\ Present(r.candidates[1][1].content)
  /\ Present(r.candidates[1][1].content[1].parts)
  /\ Len(r.candidates[1][1].content[1].parts[1]) >= 1

ClaimedError(r) ==
  IF HasErrorMessage(r)
    THEN "API Error: " \o r.error[1].message[1]
  ELSE IF Present(r.promptFeedback) /\ Truthy(r.promptFeedback[1].blockReason)
    THEN "Summary blocked due to: " \o r.promptFeedback[1].blockReason[1]
           \o ". Content might violate safety policies."
  ELSE IF Present(r.candidates) /\ r.candidates[1] = <<>>
    THEN MsgNoCandidates
  ELSE MsgUnexpected

\* C7: for every response that is not a structurally valid success the
\* error is chosen by the first matching rule (error message, block reason,
\* empty candidates, else the generic 'unexpected' message, which also
\* covers a null or unparseable body); only a failed call yields the
\* connectivity message; summary stays empty in all these cases.
C7_ErrorPriority ==
  [][/\ \A s \in summaries : \A body \in Bodies :
          Completes(s, body) /\ (body = <<>> \/ ~AcceptedAsSuccess(s.ok, body[1]))
            => /\ error' = (IF body = <<>> THEN MsgUnexpected ELSE ClaimedError(body[1]))
               /\ summary' = Some("")
     /\ last'.op = "jsonRejected" /\ SummarizationEnds
          => error' = MsgUnexpected /\ summary' = Some("")
     /\ last'.op = "fetchRejected" /\ SummarizationEnds
          => error' = MsgNetwork /\ summary' = Some("")]_vars

\* F joined by single spaces
RECURSIVE SpaceJoined(_, _)
SpaceJoined(F, k) ==
  IF k = 0 THEN ""
  ELSE IF k = 1 THEN F[1]
  ELSE SpaceJoined(F, k - 1) \o " " \o F[k]

\* the text of the first n pages, each followed by one line break
RECURSIVE PagesText(_, _)
PagesText(pages, n) ==
  IF n = 0 THEN ""
  ELSE PagesText(pages, n - 1) \o SpaceJoined(pages[n], Len(pages[n])) \o "\n"

\* C8: a successful extraction of a document of N >= 0 pages stores the
\* concatenation, in page order, of each page's fragments joined by single
\* spaces and followed by one line break (pages ["Hello","world"], ["Bye"]
\* give "Hello world\nBye\n"); a failed extraction stores nothing.
C8_ExtractedTextIsPagesInOrder ==
  [][\A t \in extractions :
       t.id \notin {u.id : u \in extractions'}
         => /\ last'.op = "extractDone"
              => /\ extractedText' = PagesText(PagesOf(t.file), Len(PagesOf(t.file)))
                 /\ t.file = "hello.pdf" => extractedText' = "Hello world\nBye\n"
            /\ last'.op # "extractDone" => extractedText' = extractedText]_vars

\* the two-page example extracted
C8_Witness ==
  /\ last.op = "extractDone"
  /\ pdfFile = Some([name |-> "hello.pdf", type |-> "application/pdf"])
  /\ extractedText = "Hello world\nBye\n"
  /\ ~loading

\* C9: over any interleaving of file selections, button presses and
\* completions, at most one summarization network call is in flight.
C9_AtMostOneCallInFlight == Cardinality(summaries) <= 1

\* C10: the summarize button is pressable only if extracted text is
\* present and no extraction and no summarization is in flight.
C10_ButtonOnlyWhenIdle ==
  ButtonEnabled => extractedText # "" /\ extractions = {} /\ summaries = {}

\* C11: in every reachable state exactly one status is active: loading is
\* never true while the error message is non-empty.
C11_NeverBusyAndError == ~(loading /\ error # "")

\* C12: whenever an extraction completes successfully, whatever state the
\* completion arrives in, right after it extractedText is the text extracted
\* from that document, error is empty and loading is false.
C12_ExtractionSuccessClearsError ==
  [][\A t \in extractions :
       t.id \notin {u.id : u \in extractions'} /\ last'.op = "extractDone"
         => /\ extractedText' = PagesText(PagesOf(t.file), Len(PagesOf(t.file)))
            /\ error' = ""
            /\ ~loading']_vars

\* a step run by the user: a file selection or a press of the button
UserStep == (\E files \in FileLists : handleFileChange(files)) \/ ClickSummarize

\* the attempts of es that are in flight in es2 and were not in es
NewAttempts(es, es2) == {u \in es2 : u.id \notin {e.id : e \in es}}

\* the steps in which an attempt fails
FailureOps ==
  {"readError", "noPdfJs", "extractFailed",
   "fetchRejected", "jsonRejected", "resultThrew", "summaryError"}

\* C13: there are no automatic retries. A summarizeText invocation that
\* passes its guards issues exactly one network call, an accepted file
\* selection starts exactly one extraction, and a completion or failure step
\* issues no call, starts no extraction, sends no attempt back to its first
\* stage and never turns loading from false to true: only a file selection
\* or a button press does. A step in which an attempt fails ends it.
C13_NoAutomaticRetry ==
  [][/\ ClickSummarize /\ Len(extractedText) <= MAX_TEXT_LENGTH
          => /\ calls' = calls + 1
             /\ Cardinality(NewAttempts(summaries, summaries')) = 1
             /\ \A u \in NewAttempts(summaries, summaries') : u.pc = "fetch"
             /\ summaries \subseteq summaries'
             /\ extractions' = extractions /\ started' = started
     /\ \A files \in FileLists :
          ~InvalidSelection(files) /\ handleFileChange(files)
            => /\ started' = started + 1
               /\ Cardinality(NewAttempts(extractions, extractions')) = 1
               /\ \A u \in NewAttempts(extractions, extractions') : u.pc = "read"
               /\ extractions \subseteq extractions'
               /\ summaries' = summaries /\ calls' = calls
     /\ ~UserStep
          => /\ calls' = calls /\ started' = started
             /\ NewAttempts(summaries, summaries') = {}
             /\ NewAttempts(extractions, extractions') = {}
             /\ \A u \in summaries' : u.pc = "fetch" => u \in summaries
             /\ \A u \in extractions' : u.pc = "read" => u \in extractions
             /\ Cardinality(summaries') <= Cardinality(summaries)
             /\ Cardinality(extractions') <= Cardinality(extractions)
     /\ last'.op \in FailureOps
          => Cardinality(summaries') + Cardinality(extractions')
               = Cardinality(summaries) + Cardinality(extractions) - 1
     /\ ~loading /\ loading' => UserStep]_vars

\* one selection and one press, the call failed, and nothing is in flight
\* or busy afterwards
C13_Witness ==
  /\ last.op = "fetchRejected"
  /\ started = 1 /\ calls = 1
  /\ extractions = {} /\ summaries = {}
  /\ error = MsgNetwork
  /\ ~loading

\* C14: in every reachable state a non-empty extractedText comes with a
\* non-null pdfFile and is the text extracted from that selected document;
\* the text of a document selected earlier is never stored once a later
\* selection, valid or not, has been made.
C14_TextIsOfSelectedDocument ==
  extractedText # ""
    => /\ pdfFile # <<>>
       /\ extractedText = PagesText(PagesOf(pdfFile[1].name), Len(PagesOf(pdfFile[1].name)))

\* C15: a non-empty summary is always the response to a request whose
\* prompt was built from the current extractedText of the selected document:
\* a completion makes a summary visible only if a document is selected and
\* the request's prompt is the one built from the extractedText shown, and
\* no step changes pdfFile or extractedText and leaves a summary visible.
C15_SummaryIsOfCurrentText ==
  [][/\ \A s \in summaries : \A body \in Bodies :
          Completes(s, body) /\ last'.op = "summarySuccess" /\ Truthy(summary')
            => /\ pdfFile' # <<>>
               /\ s.prompt = Prompt(extractedText')
     /\ Truthy(summary') /\ summary' = summary
          => pdfFile' = pdfFile /\ extractedText' = extractedText]_vars

\* C16: when a summarization that issued its call concludes in the state
\* its start left (summary and error empty, loading true: nothing done by
\* the user since shows), exactly one of summary and error is non-empty
\* afterwards; the success branch is taken only for a body whose first
\* candidate's first part carries a non-empty text, and every other
\* conclusion sets a non-empty error.
C16_ExactlyOneOfSummaryAndError ==
  [][/\ SummarizationEnds /\ summary = Some("") /\ error = "" /\ loading
          => (Truthy(summary') /\ error' = "") \/ (~Truthy(summary') /\ error' # "")
     /\ \A s \in summaries : \A body \in Bodies :
          Completes(s, body) /\ last'.op = "summarySuccess"
            => /\ HasFirstText(body[1])
               /\ body[1].candidates[1][1].content[1].parts[1][1].text[1] # ""
     /\ SummarizationEnds /\ last'.op # "summarySuccess" => error' # ""]_vars

====
